---- MODULE Spec2Model ----
(***************************************************************************)
(* SOMA Analytics: the FastAPI facade (src/api.py) over the A/B test       *)
(* analysis module (src/analysis/ab_test.py).                              *)
(*                                                                         *)
(*   Spec      one process serving requests one after another: the retry   *)
(*             wrapper, the six wrapped endpoints, the data-access layer   *)
(*             and the lazily built engine.                                *)
(*   SpecCmp   get_comparison_metrics over the rows the store returns.     *)
(*   SpecPool  concurrent workers inside get_db_connection.                *)
(***************************************************************************)
EXTENDS Integers, Sequences, FiniteSets, TLC

VARIABLES
    db_url,          \* os.getenv("DATABASE_URL"): None or a connection string
    engine,          \* ab_test._engine: None or the id of the engine built
    created,         \* number of create_engine invocations in this process
    cfgFailures,     \* number of get_db_connection calls that raised ValueError
    served,          \* number of requests answered
    pc,              \* "boot", "idle", "attempt", "sleep", "done"
    req,             \* the request being handled: [ep, variant, limit]
    attempt,         \* the wrapper's loop variable
    last_exception,  \* the wrapper's last_exception
    outcome,         \* how the wrapper ended: [kind, exc, value]
    trace,           \* what happened during this request, in order
    stats,           \* SpecCmp: rows of v_variant_stats handed to the comparison
    result,          \* SpecCmp: what get_comparison_metrics returned
    cpc,             \* SpecCmp: "input" or "done"
    tpc,             \* SpecPool: each worker's position in get_db_connection
    tengine,         \* SpecPool: the engine each worker got back
    conns            \* SpecPool: live connections of each engine built

facadeVars == <<db_url, engine, created, cfgFailures, served, pc, req, attempt,
                last_exception, outcome, trace>>
cmpVars    == <<stats, result, cpc>>
poolVars   == <<tpc, tengine, conns>>
vars       == <<facadeVars, cmpVars, poolVars>>

----------------------------------------------------------------------------
(* Bounds of the model *)

MaxRequests == 2      \* requests served in one behaviour
LimitSlack  == 1      \* how far around each limit boundary the inputs range
MaxStats    == 2      \* rows the store returns for v_variant_stats
MaxAvg      == 5      \* avg_completion_time values 0..MaxAvg (thousandths of a second)
NumWorkers  == 2      \* concurrent workers in SpecPool

(* Program constants *)

Retries        == 2      \* retry_on_failure(retries=2, ...)
MaxRecent      == 500    \* recent_completions: if limit > 500
DefaultRecent  == 100    \* recent_completions(limit: int = 100)
MaxLeaders     == 50     \* leaderboard: if limit > 50
MinLeaders     == 1      \* leaderboard: if limit < 1
DefaultLeaders == 10     \* leaderboard(limit: int = 10) and limit = 10
PoolSize       == 5      \* create_engine(pool_size=5)
MaxOverflow    == 10     \* create_engine(max_overflow=10)

None == "None"
NoEngine == 0         \* _engine = None

----------------------------------------------------------------------------
(* Inputs *)

Endpoints == {"variant-stats", "conversion-funnel", "recent-completions",
              "comparison", "time-distribution", "leaderboard"}

VariantInputs == {"A", "B", "C", "a"}

Near(x, c) == x - c <= LimitSlack /\ c - x <= LimitSlack

Limits == {l \in (0 - LimitSlack)..(MaxRecent + LimitSlack) :
              \/ Near(l, 0) \/ Near(l, MaxLeaders) \/ Near(l, MaxRecent)
              \/ l = DefaultLeaders \/ l = DefaultRecent}

Requests ==
    {[ep |-> e, variant |-> None, limit |-> 0] :
        e \in Endpoints \ {"recent-completions", "leaderboard"}}
    \cup {[ep |-> "recent-completions", variant |-> None, limit |-> l] : l \in Limits}
    \cup {[ep |-> "leaderboard", variant |-> v, limit |-> l] :
            v \in VariantInputs, l \in Limits}

NoRequest == [ep |-> None, variant |-> None, limit |-> 0]

(* What the store does with one query: it fails, or it answers with rows. *)
Exc(type, status, detail) == [type |-> type, status |-> status, detail |-> detail]

NoExc == Exc(None, 0, "")

StoreErrors == {Exc("OperationalError", 0, "connection refused"),
                Exc("OperationalError", 0, "server closed the connection")}

Row(v, avg, n) == [variant |-> v, avg_completion_time |-> avg, total_completions |-> n]

SampleRows == {<< >>, <<Row("A", 50000, 100), Row("B", 65000, 90)>>}

StoreOutcomes ==
    {[ok |-> FALSE, err |-> e, rows |-> << >>] : e \in StoreErrors}
    \cup {[ok |-> TRUE, err |-> NoExc, rows |-> r] : r \in SampleRows}

----------------------------------------------------------------------------
(* src/analysis/ab_test.py: get_comparison_metrics                          *)
(*                                                                          *)
(* Times are integers in thousandths of a second.  round(x, 2) yields      *)
(* hundredths of a second and round(x, 1) tenths of a percent.             *)

Abs(x) == IF x < 0 THEN 0 - x ELSE x

(* round(num / den, k), in units of the last kept digit, den > 0: the       *)
(* nearest integer.  A quotient exactly half-way between two integers is   *)
(* rounded by the binary expansion the float happens to have, so both      *)
(* neighbours are possible outcomes.                                       *)
Rounded(num, den) ==
    {r \in {num \div den, (num \div den) + 1} : 2 * Abs(r * den - num) <= den}

(* next((v for v in stats if v['variant'] == name), None): the first row   *)
(* of that variant as a one-element sequence, << >> for None.              *)
FirstVariantOrFirstRow(rows, name) ==
    LET idx == {i \in 1..Len(rows) : rows[i].variant = name}
    IN  IF rows = << >> THEN << >>
        ELSE IF idx = {} THEN <<rows[1]>>
        ELSE <<rows[CHOOSE i \in idx : \A j \in idx : i <= j]>>
FirstVariant(rows, name) ==
    LET idx == {i \in 1..Len(rows) : rows[i].variant = name}
    IN  IF idx = {} THEN << >>
        ELSE <<rows[CHOOSE i \in idx : \A j \in idx : i <= j]>>

TooFewRows(rows) == Len(rows) < 2

PctTenthsOfB(avgA, avgB) ==
    IF avgB > 0 THEN Rounded(1000 * (avgB - avgA), avgB) ELSE {0}
PctTenths(avgA, avgB) ==
    IF avgA > 0 THEN Rounded(1000 * (avgB - avgA), avgA) ELSE {0}

Metrics(a, b) ==
    {[time_difference_seconds |-> td,
      percentage_difference   |-> pd,
      variant_a_avg           |-> ra,
      variant_b_avg           |-> rb,
      variant_a_completions   |-> a.total_completions,
      variant_b_completions   |-> b.total_completions] :
        td \in Rounded(b.avg_completion_time - a.avg_completion_time, 10),
        pd \in PctTenths(a.avg_completion_time, b.avg_completion_time),
        ra \in Rounded(a.avg_completion_time, 10),
        rb \in Rounded(b.avg_completion_time, 10)}

(* The dictionaries get_comparison_metrics can return for these rows. *)
ComparisonOf(rows) ==
    IF TooFewRows(rows)
    THEN {[error |-> "Need data from both variants for comparison"]}
    ELSE LET variant_a == FirstVariant(rows, "A")
             variant_b == FirstVariant(rows, "B")
         IN  IF variant_a = << >> \/ variant_b = << >>
             THEN {[error |-> "Missing data for variant A or B"]}
             ELSE Metrics(variant_a[1], variant_b[1])

----------------------------------------------------------------------------
(* src/analysis/ab_test.py: the data-access layer                           *)

ConfigError == Exc("ValueError", 0, "DATABASE_URL environment variable not set in .env")

(* get_db_connection with _engine = eng, DATABASE_URL = url and n engines  *)
(* built so far: what it raises, and _engine and the count afterwards.     *)
get_db_connection(eng, url, n) ==
    IF eng = NoEngine
    THEN IF url = None
         THEN [exc |-> ConfigError, engine |-> eng, created |-> n]
         ELSE [exc |-> NoExc, engine |-> n + 1, created |-> n + 1]
    ELSE [exc |-> NoExc, engine |-> eng, created |-> n]

Call(fn, args) == [fn |-> fn, args |-> args]

(* The body shared by the query functions: engine = get_db_connection(),   *)
(* then pd.read_sql(query, engine), which the store answers with st.       *)
ReadSql(fn, args, eng, url, n, st) ==
    LET c == get_db_connection(eng, url, n)
    IN  [exc     |-> IF c.exc # NoExc THEN c.exc ELSE st.err,
         value   |-> IF c.exc = NoExc /\ st.ok THEN st.rows ELSE << >>,
         engine  |-> c.engine,
         created |-> c.created,
         calls   |-> <<Call(fn, args)>>,
         queries |-> IF c.exc = NoExc THEN <<Call(fn, args)>> ELSE << >>]

get_variant_stats(eng, url, n, st) == ReadSql("get_variant_stats", << >>, eng, url, n, st)

get_conversion_funnel(eng, url, n, st) ==
    ReadSql("get_conversion_funnel", << >>, eng, url, n, st)

get_recent_completions(limit, eng, url, n, st) ==
    ReadSql("get_recent_completions", <<limit>>, eng, url, n, st)

get_completion_time_distribution(eng, url, n, st) ==
    LET d == ReadSql("get_completion_time_distribution", << >>, eng, url, n, st)
    IN  IF d.exc # NoExc THEN d
        ELSE [d EXCEPT !.value =
                [variant_a_times |-> SelectSeq(d.value, LAMBDA v : v.variant = "A"),
                 variant_b_times |-> SelectSeq(d.value, LAMBDA v : v.variant = "B")]]

get_leaderboard(variant, limit, eng, url, n, st) ==
    ReadSql("get_leaderboard", <<variant, limit>>, eng, url, n, st)

(* get_comparison_metrics: stats = get_variant_stats(), then the metrics. *)
get_comparison_metrics(eng, url, n, st) ==
    LET d == get_variant_stats(eng, url, n, st)
    IN  IF d.exc # NoExc THEN {d}
        ELSE {[d EXCEPT !.value = m] : m \in ComparisonOf(d.value)}

----------------------------------------------------------------------------
(* src/api.py: the wrapped endpoints                                        *)

BadVariant == Exc("HTTPException", 400, "variant must be 'A' or 'B'")

LaxVariant(variant) == variant \in {"A", "B", "a", "b"}
ValidVariant(variant) == variant \in {"A", "B"}

ClampRecent(limit) == IF limit > MaxRecent THEN MaxRecent ELSE limit

ClampLeadersToFloor(limit) ==
    LET capped == IF limit > MaxLeaders THEN MaxLeaders ELSE limit
    IN  IF capped < MinLeaders THEN MinLeaders ELSE capped
ClampLeaders(limit) ==
    LET capped == IF limit > MaxLeaders THEN MaxLeaders ELSE limit
    IN  IF capped < MinLeaders THEN DefaultLeaders ELSE capped

recent_completions(r, eng, url, n, st) ==
    get_recent_completions(ClampRecent(r.limit), eng, url, n, st)

leaderboard(r, eng, url, n, st) ==
    IF ~ValidVariant(r.variant)
    THEN [exc |-> BadVariant, value |-> << >>, engine |-> eng, created |-> n,
          calls |-> << >>, queries |-> << >>]
    ELSE get_leaderboard(r.variant, ClampLeaders(r.limit), eng, url, n, st)

(* func(args, kwargs): the ways one invocation of the endpoint can end. *)
Invoke(r, eng, url, n, st) ==
    CASE r.ep = "variant-stats"      -> {get_variant_stats(eng, url, n, st)}
      [] r.ep = "conversion-funnel"  -> {get_conversion_funnel(eng, url, n, st)}
      [] r.ep = "recent-completions" -> {recent_completions(r, eng, url, n, st)}
      [] r.ep = "comparison"         -> get_comparison_metrics(eng, url, n, st)
      [] r.ep = "time-distribution"  -> {get_completion_time_distribution(eng, url, n, st)}
      [] r.ep = "leaderboard"        -> {leaderboard(r, eng, url, n, st)}

----------------------------------------------------------------------------
(* src/api.py: retry_on_failure                                             *)

(* except Exception as e: which failures of func the wrapper catches. *)
Caught(exc) == TRUE

(* if attempt < retries - 1: time.sleep(delay) *)
SleepsAfter(att) == att < Retries - 1

(* for attempt in range(retries): is there another iteration after att *)
LoopsAgain(att) == att + 1 < Retries

(* return func(...): the wrapper returns what func returned *)
DroppedReturn(res) == [kind |-> "return", exc |-> NoExc, value |-> << >>]
Returned(res) == [kind |-> "return", exc |-> NoExc, value |-> res.value]

(* raise last_exception, once the loop is over *)
SwallowedRaise(last) == [kind |-> "return", exc |-> NoExc, value |-> << >>]
FinalRaise(last) == [kind |-> "raise", exc |-> last, value |-> << >>]

NoOutcome == [kind |-> "none", exc |-> NoExc, value |-> << >>]

CallEvent(res) == [ev |-> "call", exc |-> res.exc, value |-> res.value,
                   calls |-> res.calls, queries |-> res.queries]

SleepEvent == [ev |-> "sleep", exc |-> NoExc, value |-> << >>,
               calls |-> << >>, queries |-> << >>]

(* Module load: load_dotenv(), _engine = None, app = FastAPI(...); nothing *)
(* reads DATABASE_URL.                                                     *)
Start ==
    /\ pc = "boot"
    /\ pc' = "idle"
    /\ UNCHANGED <<db_url, engine, created, cfgFailures, served, req, attempt,
                   last_exception, outcome, trace>>
    /\ UNCHANGED <<cmpVars, poolVars>>

(* A GET arrives and the wrapper starts: last_exception = None, attempt 0. *)
Receive ==
    /\ pc = "idle"
    /\ served < MaxRequests
    /\ \E r \in Requests : req' = r
    /\ attempt' = 0
    /\ last_exception' = NoExc
    /\ outcome' = NoOutcome
    /\ trace' = << >>
    /\ pc' = "attempt"
    /\ UNCHANGED <<db_url, engine, created, cfgFailures, served>>
    /\ UNCHANGED <<cmpVars, poolVars>>

(* One iteration of the loop: try: return func(...) except Exception.      *)
Attempt ==
    /\ pc = "attempt"
    /\ \E st \in StoreOutcomes :
         \E res \in Invoke(req, engine, db_url, created, st) :
            /\ engine' = res.engine
            /\ created' = res.created
            /\ cfgFailures' = IF res.exc = ConfigError THEN cfgFailures + 1 ELSE cfgFailures
            /\ trace' = Append(trace, CallEvent(res))
            /\ IF res.exc = NoExc
               THEN /\ outcome' = Returned(res)
                    /\ pc' = "done"
                    /\ UNCHANGED <<last_exception, attempt>>
               ELSE IF ~Caught(res.exc)
               THEN /\ outcome' = [kind |-> "raise", exc |-> res.exc, value |-> << >>]
                    /\ pc' = "done"
                    /\ UNCHANGED <<last_exception, attempt>>
               ELSE /\ last_exception' = res.exc
                    /\ IF SleepsAfter(attempt)
                       THEN pc' = "sleep" /\ UNCHANGED <<outcome, attempt>>
                       ELSE IF LoopsAgain(attempt)
                       THEN pc' = "attempt" /\ attempt' = attempt + 1 /\ UNCHANGED outcome
                       ELSE pc' = "done" /\ outcome' = FinalRaise(res.exc) /\ UNCHANGED attempt
    /\ UNCHANGED <<db_url, served, req>>
    /\ UNCHANGED <<cmpVars, poolVars>>

(* time.sleep(delay), then continue with the next iteration. *)
Sleep ==
    /\ pc = "sleep"
    /\ trace' = Append(trace, SleepEvent)
    /\ IF LoopsAgain(attempt)
       THEN pc' = "attempt" /\ attempt' = attempt + 1 /\ UNCHANGED outcome
       ELSE pc' = "done" /\ outcome' = FinalRaise(last_exception) /\ UNCHANGED attempt
    /\ UNCHANGED <<db_url, engine, created, cfgFailures, served, req, last_exception>>
    /\ UNCHANGED <<cmpVars, poolVars>>

(* The response is sent; the worker is free for the next request. *)
Respond ==
    /\ pc = "done"
    /\ served' = served + 1
    /\ pc' = "idle"
    /\ UNCHANGED <<db_url, engine, created, cfgFailures, req, attempt,
                   last_exception, outcome, trace>>
    /\ UNCHANGED <<cmpVars, poolVars>>

CmpIdle  == stats = << >> /\ result = [error |-> None] /\ cpc = "off"
PoolIdle == /\ tpc = [t \in 1..NumWorkers |-> "off"]
            /\ tengine = [t \in 1..NumWorkers |-> NoEngine]
            /\ conns = << >>

FacadeInit ==
    /\ db_url \in {None, "postgresql://store"}
    /\ engine = NoEngine
    /\ created = 0
    /\ cfgFailures = 0
    /\ served = 0
    /\ pc = "boot"
    /\ req = NoRequest
    /\ attempt = 0
    /\ last_exception = NoExc
    /\ outcome = NoOutcome
    /\ trace = << >>

Init == FacadeInit /\ CmpIdle /\ PoolIdle

Next == Start \/ Receive \/ Attempt \/ Sleep \/ Respond

Spec == Init /\ [][Next]_vars

----------------------------------------------------------------------------
(* Properties of the facade, checked under Spec *)

Finished == pc \in {"done", "idle"} /\ trace # << >>

CallIdx  == {i \in 1..Len(trace) : trace[i].ev = "call"}
SleepIdx == {i \in 1..Len(trace) : trace[i].ev = "sleep"}

(* Every data-access call and every query made during this request. *)
TraceCalls ==
    UNION {{trace[i].calls[k] : k \in 1..Len(trace[i].calls)} : i \in 1..Len(trace)}
TraceQueries ==
    UNION {{trace[i].queries[k] : k \in 1..Len(trace[i].queries)} : i \in 1..Len(trace)}

StoreDownThroughout == \A i \in CallIdx : trace[i].exc \in StoreErrors

(* C1: with the store unreachable on every attempt, a finished request has *)
(* invoked the endpoint exactly twice with exactly one delay, between the  *)
(* two invocations, and ends by raising the failure of the second one; the *)
(* endpoint is never invoked a third time.                                 *)
C1_RetriesExhausted ==
    /\ Cardinality(CallIdx) <= 2
    /\ (Finished /\ StoreDownThroughout) =>
          /\ Len(trace) = 3
          /\ CallIdx = {1, 3}
          /\ SleepIdx = {2}
          /\ outcome.kind = "raise"
          /\ outcome.exc = trace[3].exc

C1_Witness ==
    /\ pc = "done"
    /\ StoreDownThroughout
    /\ Len(trace) = 3
    /\ trace[1].exc # trace[3].exc
    /\ outcome.exc = trace[3].exc

RetriedOk ==
    /\ Len(trace) >= 3
    /\ trace[1].ev = "call" /\ trace[1].exc \in StoreErrors
    /\ trace[3].ev = "call" /\ trace[3].exc = NoExc

(* C2: when the first attempt fails with a store failure and the second    *)
(* succeeds, the request ends by returning the second attempt's value, no  *)
(* exception is raised, and nothing is invoked after the success.          *)
C2_RetryTransparent ==
    RetriedOk =>
        /\ pc \in {"done", "idle"}
        /\ outcome.kind = "return"
        /\ outcome.exc = NoExc
        /\ outcome.value = trace[3].value
        /\ Len(trace) = 3

C2_Witness ==
    /\ RetriedOk
    /\ pc = "done"
    /\ req.ep = "variant-stats"
    /\ outcome.kind = "return"
    /\ outcome.value # << >>

(* C3: a non-transient failure of the endpoint (the 400 for a bad variant, *)
(* the missing DATABASE_URL) is attempted once, without delay, and raised  *)
(* at once.                                                                *)
C3_NoRetryOfPermanentFailure ==
    \A i \in CallIdx :
        trace[i].exc \in {BadVariant, ConfigError} =>
            /\ Len(trace) = 1
            /\ pc \in {"done", "idle"}
            /\ outcome.kind = "raise"
            /\ outcome.exc = trace[i].exc

(* C4: a leaderboard request whose variant is neither 'A' nor 'B' never    *)
(* invokes the data-access layer nor queries the store, whatever the       *)
(* limit, and ends in a 4xx HTTPException.                                 *)
C4_BadVariantRejected ==
    (req.ep = "leaderboard" /\ req.variant \notin {"A", "B"}) =>
        /\ TraceCalls = {}
        /\ TraceQueries = {}
        /\ Finished =>
              /\ outcome.kind = "raise"
              /\ outcome.exc.type = "HTTPException"
              /\ outcome.exc.status \in 400..499

C4_Witness ==
    /\ pc = "done"
    /\ req.ep = "leaderboard"
    /\ req.variant = "a"
    /\ req.limit > 50
    /\ Cardinality(CallIdx) = 2
    /\ outcome.exc = BadVariant

(* C5: the limit handed to get_recent_completions, and so written into the *)
(* LIMIT clause, is always within 1..500.                                  *)
C5_RecentLimitInRange ==
    \A c \in TraceCalls \cup TraceQueries :
        c.fn = "get_recent_completions" => c.args[1] \in 1..500

LeaderCalls == {c \in TraceCalls : c.fn = "get_leaderboard"}

Max2(a, b) == IF a > b THEN a ELSE b
Min2(a, b) == IF a < b THEN a ELSE b

(* C6 as stated: the limit handed to get_leaderboard is                    *)
(* max(1, min(50, limit)).                                                 *)
C6_ClampedToOneFifty ==
    \A c \in LeaderCalls : c.args[2] = Max2(1, Min2(50, req.limit))

(* C6 as the code has it: the limit handed to get_leaderboard is 50 for a  *)
(* limit above 50, the default 10 for a limit below 1, and the limit       *)
(* itself otherwise; it is always within 1..50.                            *)
C6_CappedOrDefault ==
    \A c \in LeaderCalls :
        /\ c.args[1] = req.variant
        /\ c.args[2] \in 1..50
        /\ req.limit > 50 => c.args[2] = 50
        /\ req.limit < 1 => c.args[2] = 10
        /\ req.limit \in 1..50 => c.args[2] = req.limit

C6_Witness ==
    /\ pc = "done"
    /\ req.ep = "leaderboard"
    /\ req.limit < 1
    /\ \E c \in LeaderCalls : c.args[2] = 10
    /\ outcome.kind = "return"

(* C9: with DATABASE_URL unset the process never answers a request, and    *)
(* get_db_connection fails for the missing configuration at most once.     *)
C9_FatalAtStart ==
    db_url = None => (served = 0 /\ cfgFailures <= 1)

----------------------------------------------------------------------------
(* get_comparison_metrics over the rows of v_variant_stats: SpecCmp         *)

StatVariants == {"A", "B", "C"}

(* ORDER BY variant *)
VariantRank(v) == CASE v = "A" -> 1 [] v = "B" -> 2 [] OTHER -> 3

AvgValues == (0..MaxAvg) \cup {16, 50000, 65000}

CompletionValues == {90, 100}

StatRows == {Row(v, a, n) : v \in StatVariants, a \in AvgValues, n \in CompletionValues}

AllStats ==
    UNION {{s \in [1..k -> StatRows] :
               \A i \in 1..(k - 1) : VariantRank(s[i].variant) <= VariantRank(s[i + 1].variant)} :
           k \in 0..MaxStats}

FacadeOff ==
    /\ db_url = "postgresql://store" /\ engine = NoEngine /\ created = 0
    /\ cfgFailures = 0 /\ served = 0 /\ pc = "off" /\ req = NoRequest
    /\ attempt = 0 /\ last_exception = NoExc /\ outcome = NoOutcome /\ trace = << >>

CmpInit ==
    /\ stats \in AllStats
    /\ result = [error |-> None]
    /\ cpc = "input"
    /\ FacadeOff
    /\ PoolIdle

(* get_comparison_metrics() returns, the store having answered with stats. *)
Compare ==
    /\ cpc = "input"
    /\ result' \in ComparisonOf(stats)
    /\ cpc' = "done"
    /\ UNCHANGED <<stats, facadeVars, poolVars>>

CmpNext == Compare

SpecCmp == CmpInit /\ [][CmpNext]_vars

HasVariant(name) == \E i \in 1..Len(stats) : stats[i].variant = name

MetricFields == {"time_difference_seconds", "percentage_difference",
                 "variant_a_avg", "variant_b_avg",
                 "variant_a_completions", "variant_b_completions"}

(* C7: whenever the store returned fewer than two rows, or no row of       *)
(* variant 'A', or no row of variant 'B', get_comparison_metrics returns a *)
(* dictionary with the single key 'error'; it returns the metric fields,   *)
(* and no 'error', exactly when both an 'A' and a 'B' row exist; it        *)
(* returns for every sequence of rows.                                     *)
C7_ErrorPayloadWithoutBothVariants ==
    /\ cpc = "input" => ENABLED Compare
    /\ cpc = "done" =>
         /\ (Len(stats) < 2 \/ ~HasVariant("A") \/ ~HasVariant("B"))
               => DOMAIN result = {"error"}
         /\ (HasVariant("A") /\ HasVariant("B")) => DOMAIN result = MetricFields

C7_Witness ==
    /\ cpc = "done"
    /\ Len(stats) >= 2
    /\ \A i \in 1..Len(stats) : stats[i].variant = "A"
    /\ DOMAIN result = {"error"}

AvgOf(name) == FirstVariant(stats, name)[1].avg_completion_time

Compared == cpc = "done" /\ HasVariant("A") /\ HasVariant("B")

(* C8 as stated: time_difference is exactly avgB - avgA and                *)
(* percentage_difference exactly 100 * (avgB - avgA) / avgA when avgA > 0, *)
(* and 0 when avgA = 0.                                                    *)
C8_ExactDifferences ==
    Compared =>
        /\ result.time_difference_seconds * 10 = AvgOf("B") - AvgOf("A")
        /\ AvgOf("A") > 0 =>
              result.percentage_difference * AvgOf("A") = 1000 * (AvgOf("B") - AvgOf("A"))
        /\ AvgOf("A") = 0 => result.percentage_difference = 0

(* C8 as the code has it: time_difference is avgB - avgA rounded to two    *)
(* decimals and percentage_difference is 100 * (avgB - avgA) / avgA        *)
(* rounded to one decimal when avgA > 0, and 0 when avgA = 0; averages of  *)
(* 50 and 65 give exactly 15 and 30.                                       *)
C8_RoundedDifferences ==
    Compared =>
        LET a  == AvgOf("A")
            b  == AvgOf("B")
            td == result.time_difference_seconds
            pd == result.percentage_difference
        IN  /\ 2 * Abs(td * 10 - (b - a)) <= 10
            /\ a > 0 => 2 * Abs(pd * a - 1000 * (b - a)) <= a
            /\ a = 0 => pd = 0
            /\ (a = 50000 /\ b = 65000) => (td = 1500 /\ pd = 300)

C8_Witness ==
    /\ Compared
    /\ AvgOf("A") = 3
    /\ AvgOf("B") = 4
    /\ result.percentage_difference = 333
    /\ result.time_difference_seconds = 0

----------------------------------------------------------------------------
(* Concurrent workers inside get_db_connection: SpecPool                    *)
(*                                                                          *)
(* FastAPI runs each def endpoint on a thread of its pool, so the          *)
(* statements of get_db_connection interleave between requests.  conns[e]  *)
(* is the number of connections checked out of the pool of engine e.       *)

Workers == 1..NumWorkers

PoolInit ==
    /\ db_url \in {None, "postgresql://store"}
    /\ engine = NoEngine
    /\ created = 0
    /\ cfgFailures = 0
    /\ served = 0
    /\ pc = "off" /\ req = NoRequest /\ attempt = 0
    /\ last_exception = NoExc /\ outcome = NoOutcome /\ trace = << >>
    /\ CmpIdle
    /\ tpc = [t \in Workers |-> "idle"]
    /\ tengine = [t \in Workers |-> NoEngine]
    /\ conns = << >>

PoolUnchanged == UNCHANGED <<pc, req, attempt, last_exception, outcome, trace,
                             cmpVars, db_url>>

Busy == {t \in Workers : tpc[t] # "idle"}

(* A request arrives and its data-access function calls                    *)
(* get_db_connection().                                                    *)
Enter(t) ==
    /\ tpc[t] = "idle"
    /\ served + Cardinality(Busy) < MaxRequests
    /\ tpc' = [tpc EXCEPT ![t] = "check"]
    /\ tengine' = [tengine EXCEPT ![t] = NoEngine]
    /\ UNCHANGED <<engine, created, cfgFailures, conns, served>>
    /\ PoolUnchanged

(* if _engine is None: *)
CheckEngine(t) ==
    /\ tpc[t] = "check"
    /\ tpc' = [tpc EXCEPT ![t] = IF engine = NoEngine THEN "getenv" ELSE "return"]
    /\ UNCHANGED <<engine, created, cfgFailures, conns, tengine, served>>
    /\ PoolUnchanged

(* db_url = os.getenv("DATABASE_URL"); if not db_url: raise ValueError *)
GetEnv(t) ==
    /\ tpc[t] = "getenv"
    /\ IF db_url = None
       THEN /\ tpc' = [tpc EXCEPT ![t] = "idle"]
            /\ cfgFailures' = cfgFailures + 1
            /\ served' = served + 1
       ELSE /\ tpc' = [tpc EXCEPT ![t] = "create"]
            /\ UNCHANGED <<cfgFailures, served>>
    /\ UNCHANGED <<engine, created, conns, tengine>>
    /\ PoolUnchanged

(* create_engine(db_url, poolclass=pool.QueuePool, pool_size=5, ...) *)
CreateEngine(t) ==
    /\ tpc[t] = "create"
    /\ created' = created + 1
    /\ conns' = Append(conns, 0)
    /\ tengine' = [tengine EXCEPT ![t] = created + 1]
    /\ tpc' = [tpc EXCEPT ![t] = "assign"]
    /\ UNCHANGED <<engine, cfgFailures, served>>
    /\ PoolUnchanged

(* _engine = <the engine just built> *)
AssignEngine(t) ==
    /\ tpc[t] = "assign"
    /\ engine' = tengine[t]
    /\ tpc' = [tpc EXCEPT ![t] = "return"]
    /\ UNCHANGED <<created, cfgFailures, conns, tengine, served>>
    /\ PoolUnchanged

(* return _engine *)
ReturnEngine(t) ==
    /\ tpc[t] = "return"
    /\ tengine' = [tengine EXCEPT ![t] = engine]
    /\ tpc' = [tpc EXCEPT ![t] = "query"]
    /\ UNCHANGED <<engine, created, cfgFailures, conns, served>>
    /\ PoolUnchanged

(* pd.read_sql(query, engine) checks a connection out of the engine's      *)
(* QueuePool, which hands out at most pool_size + max_overflow.            *)
Checkout(t) ==
    /\ tpc[t] = "query"
    /\ conns[tengine[t]] < PoolSize + MaxOverflow
    /\ conns' = [conns EXCEPT ![tengine[t]] = @ + 1]
    /\ tpc' = [tpc EXCEPT ![t] = "reading"]
    /\ UNCHANGED <<engine, created, cfgFailures, tengine, served>>
    /\ PoolUnchanged

(* read_sql returns; the connection goes back to its pool. *)
Release(t) ==
    /\ tpc[t] = "reading"
    /\ conns' = [conns EXCEPT ![tengine[t]] = @ - 1]
    /\ tpc' = [tpc EXCEPT ![t] = "idle"]
    /\ served' = served + 1
    /\ UNCHANGED <<engine, created, cfgFailures, tengine>>
    /\ PoolUnchanged

PoolNext ==
    \E t \in Workers :
        \/ Enter(t) \/ CheckEngine(t) \/ GetEnv(t) \/ CreateEngine(t)
        \/ AssignEngine(t) \/ ReturnEngine(t) \/ Checkout(t) \/ Release(t)

SpecPool == PoolInit /\ [][PoolNext]_vars

RECURSIVE SumSeq(_)
SumSeq(s) == IF s = << >> THEN 0 ELSE Head(s) + SumSeq(Tail(s))

HoldsEngine(t) == tpc[t] \in {"query", "reading"}

(* C10: however the workers interleave, create_engine is invoked at most   *)
(* once, all workers use the same pool, and the live connections of the    *)
(* process never exceed 5 + 10.                                            *)
C10_SinglePool ==
    /\ created <= 1
    /\ \A t, u \in Workers : (HoldsEngine(t) /\ HoldsEngine(u)) => tengine[t] = tengine[u]
    /\ SumSeq(conns) <= 15

====
